---- MODULE Spec2Model ----
(***************************************************************************)
(* A model of the trip planner: the Streamlit page (src/streamlit_app.py)  *)
(* and the LLM loader (src/utils/model_loader.py).                         *)
(*                                                                         *)
(* Text is a sequence of characters, each character a string.  Characters  *)
(* outside ASCII are written by name: "RUPEE" is the rupee sign, "FWCOLON" *)
(* the full-width colon, "DEG" the degree sign, "NBSP" the no-break space  *)
(* U+00A0, "NEL" U+0085, "LS" U+2028, "PS" U+2029; so are the control      *)
(* control characters with no escape and U+007F, by their ASCII names:     *)
(* "NUL", "SOH", ..., "BS" for \b, "VT" for \v, ..., "US", "DEL".  The      *)
(* alphabet of the model is Alphabet below.  An optional value (an         *)
(* environment variable, a config entry) is <<>> when absent (Python's     *)
(* None) and <<v>> when present.  A whole number is the sequence of its    *)
(* decimal digits, a float a record that is such a number or infinity.     *)
(***************************************************************************)
EXTENDS Integers, Sequences, FiniteSets, TLC

\* ------------------------------------------------------------------ bounds

\* The most lines of a generated answer text.
MaxLines == 3

\* ------------------------------------------------------------- characters

UpperSeq == <<"A", "B", "C", "D", "E", "F", "G", "H", "I", "J", "K", "L", "M",
              "N", "O", "P", "Q", "R", "S", "T", "U", "V", "W", "X", "Y", "Z">>

LowerSeq == <<"a", "b", "c", "d", "e", "f", "g", "h", "i", "j", "k", "l", "m",
              "n", "o", "p", "q", "r", "s", "t", "u", "v", "w", "x", "y", "z">>

UpperSet == {UpperSeq[i] : i \in 1..26}

LowerSet == {LowerSeq[i] : i \in 1..26}

DigitSet == {"0", "1", "2", "3", "4", "5", "6", "7", "8", "9"}

\* The whitespace of str.strip, str.isspace and the regex class \s, within
\* the model's alphabet: the ASCII whitespace, \x1c to \x1f, U+0085, U+00A0,
\* U+2028 and U+2029.
SpaceSet == {" ", "\t", "\n", "\r", "\f", "VT", "FS", "GS", "RS", "US",
             "NEL", "NBSP", "LS", "PS"}

\* The line boundaries of str.splitlines.
LineBreaks == {"\n", "\r", "\f", "VT", "FS", "GS", "RS", "NEL", "LS", "PS"}

\* Python's str.isspace / the regex class \s.
IsSpace(c) == c \in SpaceSet

\* The regex class \d.
IsDigit(c) == c \in DigitSet

\* Case folding of re.I.
ToLower(c) == IF c \in UpperSet
              THEN LowerSeq[CHOOSE i \in 1..26 : UpperSeq[i] = c]
              ELSE c

DigitSeq == <<"0", "1", "2", "3", "4", "5", "6", "7", "8", "9">>

DigitValue(c) == CHOOSE v \in 0..9 : DigitSeq[v + 1] = c

\* The printable characters of ASCII ("BACKTICK" is the grave accent, which
\* a string of this language cannot hold).
Printable ==
  UpperSet \cup LowerSet \cup DigitSet \cup
  {" ", "!", "\"", "#", "$", "%", "&", "'", "(", ")", "*", "+", ",", "-", ".", "/",
   ":", ";", "<", "=", ">", "?", "@", "[", "\\", "]", "^", "_", "BACKTICK", "{", "|", "}", "~"}

\* The characters written by name or by escape, each with the four
\* hexadecimal digits of its code.
Codes ==
  << <<"NUL", <<"0", "0", "0", "0">> >>, <<"SOH", <<"0", "0", "0", "1">> >>,
     <<"STX", <<"0", "0", "0", "2">> >>, <<"ETX", <<"0", "0", "0", "3">> >>,
     <<"EOT", <<"0", "0", "0", "4">> >>, <<"ENQ", <<"0", "0", "0", "5">> >>,
     <<"ACK", <<"0", "0", "0", "6">> >>, <<"BEL", <<"0", "0", "0", "7">> >>,
     <<"BS", <<"0", "0", "0", "8">> >>, <<"\t", <<"0", "0", "0", "9">> >>,
     <<"\n", <<"0", "0", "0", "a">> >>, <<"VT", <<"0", "0", "0", "b">> >>,
     <<"\f", <<"0", "0", "0", "c">> >>, <<"\r", <<"0", "0", "0", "d">> >>,
     <<"SO", <<"0", "0", "0", "e">> >>, <<"SI", <<"0", "0", "0", "f">> >>,
     <<"DLE", <<"0", "0", "1", "0">> >>, <<"DC1", <<"0", "0", "1", "1">> >>,
     <<"DC2", <<"0", "0", "1", "2">> >>, <<"DC3", <<"0", "0", "1", "3">> >>,
     <<"DC4", <<"0", "0", "1", "4">> >>, <<"NAK", <<"0", "0", "1", "5">> >>,
     <<"SYN", <<"0", "0", "1", "6">> >>, <<"ETB", <<"0", "0", "1", "7">> >>,
     <<"CAN", <<"0", "0", "1", "8">> >>, <<"EM", <<"0", "0", "1", "9">> >>,
     <<"SUB", <<"0", "0", "1", "a">> >>, <<"ESC", <<"0", "0", "1", "b">> >>,
     <<"FS", <<"0", "0", "1", "c">> >>, <<"GS", <<"0", "0", "1", "d">> >>,
     <<"RS", <<"0", "0", "1", "e">> >>, <<"US", <<"0", "0", "1", "f">> >>,
     <<"DEL", <<"0", "0", "7", "f">> >>, <<"NEL", <<"0", "0", "8", "5">> >>,
     <<"NBSP", <<"0", "0", "a", "0">> >>, <<"DEG", <<"0", "0", "b", "0">> >>,
     <<"LS", <<"2", "0", "2", "8">> >>, <<"PS", <<"2", "0", "2", "9">> >>,
     <<"RUPEE", <<"2", "0", "b", "9">> >>, <<"FWCOLON", <<"f", "f", "1", "a">> >> >>

Coded == {Codes[i][1] : i \in 1..Len(Codes)}

\* The characters a text of the model is made of.
Alphabet == Printable \cup Coded

\* ----------------------------------------------------------- str methods

RECURSIVE lstrip(_)
lstrip(s) == IF s = <<>> THEN s
             ELSE IF IsSpace(Head(s)) THEN lstrip(Tail(s)) ELSE s

RECURSIVE rstrip(_)
rstrip(s) == IF s = <<>> THEN s
             ELSE IF IsSpace(s[Len(s)]) THEN rstrip(SubSeq(s, 1, Len(s) - 1)) ELSE s

\* str.strip()
strip(s) == rstrip(lstrip(s))

\* The index of the first line boundary of s, 0 when there is none.
FirstNewline(s) == IF \E i \in 1..Len(s) : s[i] \in LineBreaks
                   THEN CHOOSE i \in 1..Len(s) :
                          s[i] \in LineBreaks /\ \A k \in 1..(i - 1) : s[k] \notin LineBreaks
                   ELSE 0

\* str.splitlines(): "\r\n" is one boundary.
RECURSIVE splitlines(_)
splitlines(s) ==
  IF s = <<>> THEN <<>>
  ELSE LET i == FirstNewline(s)
           j == IF i > 0 /\ i < Len(s) /\ s[i] = "\r" /\ s[i + 1] = "\n" THEN i + 1 ELSE i
       IN  IF i = 0 THEN <<s>>
           ELSE <<SubSeq(s, 1, i - 1)>> \o splitlines(SubSeq(s, j + 1, Len(s)))

\* "\n".join(lines)
RECURSIVE join(_)
join(lines) == IF lines = <<>> THEN <<>>
               ELSE IF Len(lines) = 1 THEN lines[1]
               ELSE lines[1] \o <<"\n">> \o join(Tail(lines))

\* ---------------------------------------------------------- whole numbers

\* A whole number is the sequence of its decimal digits (each in 0..9), the
\* most significant first, with no leading zero; zero is <<0>>.  The
\* operators below compute digit by digit, on numbers of any size.

\* The number a sequence of digits writes: without its leading zeros.
Canon(ds) ==
  IF \A i \in 1..Len(ds) : ds[i] = 0 THEN <<0>>
  ELSE SubSeq(ds, CHOOSE i \in 1..Len(ds) : ds[i] # 0 /\ \A k \in 1..(i - 1) : ds[k] = 0,
              Len(ds))

Zero == <<0>>

One == <<1>>

\* a < b
Less(a, b) ==
  \/ Len(a) < Len(b)
  \/ /\ Len(a) = Len(b)
     /\ \E i \in 1..Len(a) : a[i] < b[i] /\ \A k \in 1..(i - 1) : a[k] = b[k]

\* The i-th digit of a written with n digits, leading zeros added.
At(a, i, n) == IF i > n - Len(a) THEN a[i - (n - Len(a))] ELSE 0

\* a + b: a column receives a carry when a column to its right gives one
\* and every column between passes it on.
Add(a, b) ==
  LET n == (IF Len(a) > Len(b) THEN Len(a) ELSE Len(b)) + 1
      col(i) == At(a, i, n) + At(b, i, n)
      carry(i) == \E j \in (i + 1)..n :
                    col(j) >= 10 /\ \A l \in (i + 1)..(j - 1) : col(l) = 9
  IN  Canon([i \in 1..n |-> (col(i) + (IF carry(i) THEN 1 ELSE 0)) % 10])

\* The value of at most nine digits.
RECURSIVE Small(_)
Small(ds) == IF ds = <<>> THEN 0
             ELSE 10 * Small(SubSeq(ds, 1, Len(ds) - 1)) + ds[Len(ds)]

\* a divided by 2^j, for j in 1..9: the quotient and the remainder.  10^j is
\* a multiple of 2^j, so the remainder of a prefix of a is that of its last j
\* digits.
DivPow2(a, j) ==
  LET R(i) == IF i = 0 THEN 0
              ELSE Small(SubSeq(a, IF i > j THEN i - j + 1 ELSE 1, i)) % (2 ^ j)
  IN  [q   |-> Canon([i \in 1..Len(a) |-> (R(i - 1) * 10 + a[i]) \div (2 ^ j)]),
       rem |-> R(Len(a))]

\* a times 2^j, for j in 1..7.  What the digits to the right of a column
\* carry into it is the whole part of 2^j times the fraction they write, and
\* the first j of them decide it, for a multiple of 1/2^j has j decimals.
MulPow2(a, j) ==
  LET n == Len(a) + 3
      d(i) == At(a, i, n)
      below(i) == LET m == IF n - i < j THEN n - i ELSE j
                  IN  ((2 ^ j) * Small([x \in 1..m |-> d(i + x)])) \div (10 ^ m)
  IN  Canon([i \in 1..n |-> ((2 ^ j) * d(i) + below(i)) % 10])

\* a times 2^k, by halves of k.
RECURSIVE Shl(_, _)
Shl(a, k) == IF k = 0 THEN a
             ELSE IF k <= 7 THEN MulPow2(a, k)
             ELSE LET first == Shl(a, k \div 2)
                  IN  IF first = Zero THEN Zero ELSE Shl(first, k - k \div 2)

\* a shifted right by k bits, by halves of k: what is left, whether the last
\* bit dropped was 1 (half) and whether a bit dropped before it was (sticky).
RECURSIVE Shr(_, _)
Shr(a, k) ==
  IF k = 0 THEN [q |-> a, half |-> FALSE, sticky |-> FALSE]
  ELSE IF k <= 7
  THEN LET d == DivPow2(a, k)
       IN  [q |-> d.q, half |-> d.rem >= 2 ^ (k - 1), sticky |-> d.rem % (2 ^ (k - 1)) # 0]
  ELSE LET first == Shr(a, k \div 2)
           then  == Shr(first.q, k - k \div 2)
       IN  IF first.q = Zero
           THEN [q |-> Zero, half |-> FALSE, sticky |-> first.half \/ first.sticky]
           ELSE [q |-> then.q, half |-> then.half,
                 sticky |-> then.sticky \/ first.half \/ first.sticky]

\* 2^k
TwoTo(k) == Shl(One, k)

\* The number of bits of a small number: the least b with v < 2^b.
RECURSIVE small_bits(_)
small_bits(v) == IF v = 0 THEN 0 ELSE 1 + small_bits(v \div 2)

\* The number of bits of a: the least b with a < 2^b.  A number of n digits
\* is 10^(n-1) at least, that is 2^(3(n-1)) at least, and so many bits are
\* set aside at once.
RECURSIVE BitLen(_)
BitLen(a) == IF Len(a) <= 9 THEN small_bits(Small(a))
             ELSE 3 * (Len(a) - 1) + BitLen(Shr(a, 3 * (Len(a) - 1)).q)

\* ------------------------------------------------------------------ floats

\* The bits of the significand of a float (an IEEE 754 double).
Mantissa == 53

\* Every finite float is below 2^MaxExponent.
MaxExponent == 1024

\* A float of the model: a whole number, or infinity.
Finite(n) == [inf |-> FALSE, n |-> n]

Infinity == [inf |-> TRUE, n |-> <<>>]

TwoToMantissa == TwoTo(Mantissa)

\* How many low bits a number of so many bits has beyond a significand.
Excess(bits) == IF bits > Mantissa THEN bits - Mantissa ELSE 0

\* The significand kept, s, is rounded up when the bits dropped are more than
\* half a unit, or half a unit and the significand is odd.
round_up(s) == s.half /\ (s.sticky \/ s.q[Len(s.q)] % 2 = 1)

\* The significand after rounding.
rounded(s) == IF round_up(s) THEN Add(s.q, One) ELSE s.q

\* The float m * 2^k: infinity from 2^MaxExponent on.
scaled(m, k) ==
  IF \/ k > MaxExponent - Mantissa
     \/ k = MaxExponent - Mantissa /\ m = TwoToMantissa
  THEN Infinity
  ELSE Finite(Shl(m, k))

\* n rounded to a multiple of 2^k.
round_at(n, k) == scaled(rounded(Shr(n, k)), k)

\* The float nearest the whole number n, as float() and float addition
\* round: to Mantissa bits, a tie to the even significand, and to infinity
\* from 2^MaxExponent on.
nearest_double(n) == round_at(n, Excess(BitLen(n)))

\* x + y on floats that are whole numbers or infinity.
float_add(x, y) == IF x.inf \/ y.inf THEN Infinity ELSE nearest_double(Add(x.n, y.n))

\* f"{n:,}" for a whole number n: its digits in groups of three.
with_commas(n) ==
  LET L == Len(n)
      T == L + (L - 1) \div 3
  IN  [p \in 1..T |->
         LET r == T - p
         IN  IF r % 4 = 3 THEN "," ELSE DigitSeq[n[L - (r - r \div 4)] + 1]]

\* =================================================================== loader

DECOMMISSIONED ==
  { <<"d", "e", "e", "p", "s", "e", "e", "k", "-", "r", "1", "-", "d", "i", "s",
      "t", "i", "l", "l", "-", "l", "l", "a", "m", "a", "-", "7", "0", "b">>,
    <<"d", "e", "e", "p", "s", "e", "e", "k", "-", "r", "1", "-", "d", "i", "s",
      "t", "i", "l", "l", "-", "l", "l", "a", "m", "a", "-", "7", "0", "b", "-",
      "q", "4", "_", "k", "_", "m">> }

GROQ_DEFAULT == <<"l", "l", "a", "m", "a", "-", "3", ".", "1", "-", "8", "b", "-",
                  "i", "n", "s", "t", "a", "n", "t">>

OPENAI_DEFAULT == <<"g", "p", "t", "-", "4", "o", "-", "m", "i", "n", "i">>

\* The request timeout, in seconds, of both clients.
Timeout == 60

\* The temperature of both clients, as the source writes it.
Temperature == "0.2"

\* Python's truth value of an optional string: None and "" are false.
Truthy(o) == o # <<>> /\ o[1] # <<>>

\* a or b, on optional strings.
Or(a, b) == IF Truthy(a) THEN a ELSE b

VARIABLES
  \* the loader's process
  environ,          \* os.environ: variable name -> optional string
  config,           \* config["llm"][provider]["model_name"], optional
  model_provider,   \* ModelLoader.model_provider
  resolved,         \* what the last _resolve_groq_model() call gave, optional
  llm,              \* the last load_llm() call: its provider and what it gave
  \* the page's script run
  widgets,          \* the widget values of this run
  backend,          \* what the backend will answer to a POST
  geocoder,         \* what the geocoding service will answer to a GET
  pc,               \* the script's position
  final_prompt,
  posts,            \* the prompts POSTed to /query in this run
  ok,
  answer_md,
  page              \* what the run has rendered: element name -> content

loaderVars == <<environ, config, model_provider, resolved, llm>>

pageVars == <<widgets, backend, geocoder, pc, final_prompt, posts, ok, answer_md, page>>

vars == <<environ, config, model_provider, resolved, llm,
          widgets, backend, geocoder, pc, final_prompt, posts, ok, answer_md, page>>

\* A faulty resolver that checks the disallow-list before trimming.
resolve_untrimmed_check(env_model, cfg_model) ==
  LET chosen == Or(Or(env_model, cfg_model), <<GROQ_DEFAULT>>)[1]
  IN  IF chosen \in DECOMMISSIONED THEN GROQ_DEFAULT ELSE strip(chosen)

\* ModelLoader._resolve_groq_model, of os.getenv("GROQ_MODEL") and the config's
\* llm.groq.model_name (absent when the lookup raises).
resolve_groq_model(env_model, cfg_model) ==
  LET model_name == strip(Or(Or(env_model, cfg_model), <<GROQ_DEFAULT>>)[1])
  IN  IF model_name \in DECOMMISSIONED THEN GROQ_DEFAULT ELSE model_name

\* The OpenAI branch's model: OPENAI_MODEL, else the config, else the default.
resolve_openai_model(env_model, cfg_model) ==
  IF Truthy(env_model) THEN env_model[1]
  ELSE IF cfg_model # <<>> THEN cfg_model[1]
  ELSE OPENAI_DEFAULT

Handle(provider, model, key) ==
  [kind |-> "handle", provider |-> provider, model |-> model, api_key |-> key,
   temperature |-> Temperature, timeout |-> Timeout]

Raised(type, msg) == [kind |-> type, msg |-> msg]

\* A faulty load_llm that raises only when the key is absent, and builds a
\* client with an empty key otherwise.
load_llm_unset_only(provider, env, cfg) ==
  IF provider = "groq" THEN
    IF env.GROQ_API_KEY = <<>> THEN Raised("RuntimeError", "GROQ_API_KEY is not set")
    ELSE Handle("groq", resolve_groq_model(env.GROQ_MODEL, cfg.groq), env.GROQ_API_KEY[1])
  ELSE IF provider = "openai" THEN
    IF env.OPENAI_API_KEY = <<>> THEN Raised("RuntimeError", "OPENAI_API_KEY is not set")
    ELSE Handle("openai", resolve_openai_model(env.OPENAI_MODEL, cfg.openai),
                env.OPENAI_API_KEY[1])
  ELSE Raised("ValueError", "Unsupported model_provider: " \o provider)

\* ModelLoader.load_llm
load_llm(provider, env, cfg) ==
  IF provider = "groq" THEN
    IF ~Truthy(env.GROQ_API_KEY) THEN Raised("RuntimeError", "GROQ_API_KEY is not set")
    ELSE Handle("groq", resolve_groq_model(env.GROQ_MODEL, cfg.groq), env.GROQ_API_KEY[1])
  ELSE IF provider = "openai" THEN
    IF ~Truthy(env.OPENAI_API_KEY) THEN Raised("RuntimeError", "OPENAI_API_KEY is not set")
    ELSE Handle("openai", resolve_openai_model(env.OPENAI_MODEL, cfg.openai),
                env.OPENAI_API_KEY[1])
  ELSE Raised("ValueError", "Unsupported model_provider: " \o provider)

\* ------------------------------------------------------- loader: the inputs

DeepSeek == <<"d", "e", "e", "p", "s", "e", "e", "k", "-", "r", "1", "-", "d", "i", "s",
              "t", "i", "l", "l", "-", "l", "l", "a", "m", "a", "-", "7", "0", "b">>

\* Values of GROQ_MODEL: absent, empty, blank, a model, a model within
\* whitespace (twice), a retired model, a retired model within whitespace.
GroqModelValues ==
  { <<>>, << <<>> >>, << <<" ">> >>, << <<"m">> >>, << <<" ", "m", "\n">> >>,
    << <<"NBSP", "m", "\r">> >>,
    << DeepSeek >>, << <<" ">> \o DeepSeek \o <<" ">> >> }

\* Values of the config's llm.groq.model_name.
GroqConfigValues ==
  { <<>>, << <<>> >>, << <<"c">> >>, << <<"c", " ">> >>, << DeepSeek >> }

\* Values of an API key: absent, empty, a key.
KeyValues == { <<>>, << <<>> >>, << <<"k">> >> }

OpenAiModelValues == { <<>>, << <<"o">> >> }

Providers == {"groq", "openai", "azure"}

NoEnviron == [GROQ_MODEL |-> <<>>, GROQ_API_KEY |-> <<>>,
              OPENAI_MODEL |-> <<>>, OPENAI_API_KEY |-> <<>>]

NoConfig == [groq |-> <<>>, openai |-> <<>>]

NotLoaded == [provider |-> "groq", out |-> [kind |-> "none"]]

\* The loader's process before any ModelLoader exists.
LoaderIdle ==
  /\ environ = NoEnviron
  /\ config = NoConfig
  /\ model_provider = "groq"
  /\ resolved = <<>>
  /\ llm = NotLoaded

\* A ModelLoader just constructed: the field holds its default (the only
\* value its Literal type lets the constructor take).
InitLoaderVars ==
  /\ environ \in [GROQ_MODEL : GroqModelValues, GROQ_API_KEY : KeyValues,
                  OPENAI_MODEL : OpenAiModelValues, OPENAI_API_KEY : KeyValues]
  /\ config \in [groq : GroqConfigValues, openai : {<<>>, << <<"c">> >>}]
  /\ model_provider = "groq"
  /\ resolved = <<>>
  /\ llm = NotLoaded

\* ------------------------------------------------------ loader: the actions

\* An assignment to the field, which pydantic does not validate.
AssignProvider(p) ==
  /\ model_provider' = p
  /\ UNCHANGED <<environ, config, resolved, llm>>

\* A call of _resolve_groq_model().
ResolveGroqModel ==
  /\ resolved' = <<resolve_groq_model(environ.GROQ_MODEL, config.groq)>>
  /\ UNCHANGED <<environ, config, model_provider, llm>>

\* A call of load_llm(), which for groq with a key calls
\* _resolve_groq_model() itself.
LoadLlm ==
  /\ llm' = [provider |-> model_provider,
             out |-> load_llm(model_provider, environ, config)]
  /\ resolved' = IF model_provider = "groq" /\ Truthy(environ.GROQ_API_KEY)
                 THEN <<resolve_groq_model(environ.GROQ_MODEL, config.groq)>>
                 ELSE resolved
  /\ UNCHANGED <<environ, config, model_provider>>

\* ===================================================================== page

\* Python's "a or b" on strings.
OrText(a, b) == IF a # <<>> THEN a ELSE b

\* build_prompt(): the f-strings, their literal parts kept as single elements.
build_prompt(w) ==
  LET base   == <<"Plan a ", ToString(w.days), "-day trip to ">>
                \o OrText(w.destination,
                          <<"t", "h", "e", " ", "s", "e", "l", "e", "c", "t", "e", "d",
                            " ", "c", "i", "t", "y">>)
                \o <<" starting ", w.start_date, ".">>
      prefs  == <<" Travelers: ", ToString(w.travelers), ". Budget: ", w.budget_level,
                  ". Preferred hotel stars: ", ToString(w.hotel_stars), ".">>
      tone   == <<" Vibe: ", w.vibe, ".">>
      extras == (IF w.must_include # <<>>
                 THEN <<" Must include: ">> \o w.must_include \o <<".">> ELSE <<>>)
                \o (IF w.avoid # <<>>
                    THEN <<" Avoid: ">> \o w.avoid \o <<".">> ELSE <<>>)
      spec   == <<" Return a markdown itinerary with day-by-day sections, activities (morning/afternoon/evening), reasonable commuting hints, estimated costs per day with a final budget summary, must-try food places, and quick safety tips. Include a short paragraph 'Why this plan is unique' and a 3-line teaser at top.",
                  " Write in ", w.language, ".">>
  IN  base \o prefs \o tone \o extras \o spec

\* A faulty composition that lets a destination override the free text.
compose_destination_first(w) ==
  IF w.destination # <<>> THEN build_prompt(w) ELSE strip(w.user_input)

\* The composition of final_prompt from the free text and the sidebar.
compose_final_prompt(w) ==
  LET typed == IF strip(w.user_input) # <<>> THEN strip(w.user_input) ELSE <<>>
  IN  IF typed = <<>> /\ w.destination # <<>> THEN build_prompt(w) ELSE typed

\* A faulty guard that forgets the prompt.
should_call_any_prompt(w, prompt) == w.submit_button \/ w.regen_button

\* The guard of the request: a button pressed and a prompt to send.
should_call(w, prompt) == (w.submit_button \/ w.regen_button) /\ prompt # <<>>

\* A faulty call_backend that takes every 2xx response for a success.
call_backend_any_2xx(prompt, b) ==
  IF b.kind = "exception" THEN <<FALSE, b.text>>
  ELSE IF b.status \in 200..299
       THEN IF b.json = "object"
            THEN <<TRUE, IF b.answer = <<>> THEN <<>> ELSE b.answer[1]>>
            ELSE <<FALSE, b.json_error>>
       ELSE <<FALSE, b.text>>

\* call_backend(prompt), given the backend's behaviour b: either requests.post
\* raises, or a response of some status, whose body may or may not decode to a
\* JSON object (resp.json() raising, or .get raising on a non-object, is caught).
call_backend(prompt, b) ==
  IF b.kind = "exception" THEN <<FALSE, b.text>>
  ELSE IF b.status = 200
       THEN IF b.json = "object"
            THEN <<TRUE, IF b.answer = <<>> THEN <<>> ELSE b.answer[1]>>
            ELSE <<FALSE, b.json_error>>
       ELSE <<FALSE, b.text>>

\* ------------------------------------------------------------ regex pieces

\* The first index from i on whose character is outside S (Len(s) + 1 when
\* there is none): where a greedy S* that starts at i stops.
SkipIn(s, i, S) ==
  CHOOSE j \in i..(Len(s) + 1) :
    /\ j = Len(s) + 1 \/ s[j] \notin S
    /\ \A k \in i..(j - 1) : s[k] \in S

\* The lower-case word matches s at i, ignoring case.
MatchesAt(s, i, word) ==
  /\ i >= 1
  /\ i + Len(word) - 1 <= Len(s)
  /\ \A k \in 1..Len(word) : ToLower(s[i + k - 1]) = word[k]

Min(a, b) == IF a <= b THEN a ELSE b

\* ------------------------------------------------------------ the Day tab

Day == <<"d", "a", "y">>

\* [:FWCOLON]
Colons == {":", "FWCOLON"}

NoMatch == [start |-> 0, hdr |-> 0, end |-> 0]

\* The match of \n\s*Day\s*\d+[:FWCOLON] (re.I) that starts at index i of s:
\* where it starts, where its group (the header) starts, and where it ends;
\* NoMatch when there is none.  Each class excludes what follows it, so the
\* greedy match is the only one.
day_header_at(s, i) ==
  LET a == SkipIn(s, i + 1, SpaceSet)
      b == SkipIn(s, a + 3, SpaceSet)
      c == SkipIn(s, b, DigitSet)
  IN  IF /\ s[i] = "\n"
         /\ MatchesAt(s, a, Day)
         /\ c > b
         /\ c <= Len(s)
         /\ s[c] \in Colons
      THEN [start |-> i, hdr |-> a, end |-> c]
      ELSE NoMatch

\* The non-overlapping matches of the header pattern in s from pos on, leftmost
\* first, as re.split and re.findall scan them.
RECURSIVE day_matches(_, _)
day_matches(s, pos) ==
  IF \A i \in pos..Len(s) : day_header_at(s, i).end = 0 THEN <<>>
  ELSE LET m == day_header_at(s, CHOOSE i \in pos..Len(s) :
                                   /\ day_header_at(s, i).end > 0
                                   /\ \A k \in pos..(i - 1) : day_header_at(s, k).end = 0)
       IN  <<m>> \o day_matches(s, m.end + 1)

RECURSIVE split_pieces(_, _, _)
split_pieces(s, ms, from) ==
  IF ms = <<>> THEN <<SubSeq(s, from, Len(s))>>
  ELSE <<SubSeq(s, from, Head(ms).start - 1)>>
       \o split_pieces(s, Tail(ms), Head(ms).end + 1)

\* re.split(r"\n\s*Day\s*\d+[:FWCOLON]", answer_md, flags=re.I)
days_split(md) == split_pieces(md, day_matches(md, 1), 1)

\* re.findall(r"\n\s*(Day\s*\d+[:FWCOLON])", answer_md, flags=re.I)
headers(md) ==
  LET ms == day_matches(md, 1)
  IN  [k \in 1..Len(ms) |-> SubSeq(md, ms[k].hdr, ms[k].end)]

\* The Day Plan tab: one expander per header, or the notice.
tab_days(md) ==
  LET split == days_split(md)
      hs    == headers(md)
  IN  IF Len(hs) >= 1
      THEN [kind |-> "sections",
            sections |-> [idx \in 1..(Len(split) - 1) |->
                            [hdr |-> strip(hs[idx]), body |-> split[idx + 1],
                             expanded |-> (idx = 1)]]]
      ELSE [kind |-> "info", sections |-> <<>>]

\* --------------------------------------------------------- the Budget tab

\* How many candidate lines extract_budget_lines keeps.
BudgetCap == 20

\* (budget|cost|RUPEE|\$|INR|USD), lower-cased for re.I
BudgetTokens == { <<"b", "u", "d", "g", "e", "t">>, <<"c", "o", "s", "t">>,
                  <<"RUPEE">>, <<"$">>, <<"i", "n", "r">>, <<"u", "s", "d">> }

\* re.search(r"(budget|cost|RUPEE|\$|INR|USD)", ln, re.I)
has_budget_token(ln) ==
  \E tok \in BudgetTokens : \E i \in 1..Len(ln) : MatchesAt(ln, i, tok)

\* A faulty extraction that keeps every line.
extract_every_line(md) == splitlines(md)

\* extract_budget_lines(md)
extract_budget_lines(md) ==
  LET hits == SelectSeq(splitlines(md), has_budget_token)
  IN  SubSeq(hits, 1, Min(BudgetCap, Len(hits)))

\* [A-Za-z ]
NameSet == UpperSet \cup LowerSet \cup {" "}

\* [RUPEE$]
CurrencySet == {"RUPEE", "$"}

\* [\d,]
AmountSet == DigitSet \cup {","}

\* The match of ([A-Za-z ]+):\s*([RUPEE$])?\s*([\d,]+) that starts at index i
\* of ln: the bounds of groups 1 and 3, or NoPair.  Each class excludes what
\* follows it, so the greedy match is the only one.
NoPair == [found |-> FALSE, name_from |-> 0, name_to |-> 0, amt_from |-> 0, amt_to |-> 0]

pair_at(ln, i) ==
  LET e == SkipIn(ln, i, NameSet)
      a == SkipIn(ln, e + 1, SpaceSet)
      b == IF a <= Len(ln) /\ ln[a] \in CurrencySet THEN a + 1 ELSE a
      c == SkipIn(ln, b, SpaceSet)
      d == SkipIn(ln, c, AmountSet)
  IN  IF /\ ln[i] \in NameSet
         /\ e <= Len(ln)
         /\ ln[e] = ":"
         /\ d > c
      THEN [found |-> TRUE, name_from |-> i, name_to |-> e - 1,
            amt_from |-> c, amt_to |-> d - 1]
      ELSE NoPair

\* re.search of the pattern in ln: the leftmost match.
pair_search(ln) ==
  IF \E i \in 1..Len(ln) : pair_at(ln, i).found
  THEN pair_at(ln, CHOOSE i \in 1..Len(ln) :
                     /\ pair_at(ln, i).found
                     /\ \A k \in 1..(i - 1) : ~pair_at(ln, k).found)
  ELSE NoPair

\* float() of a string of digits: the float nearest the number they write.
to_number(ds) == nearest_double(Canon([i \in 1..Len(ds) |-> DigitValue(ds[i])]))

\* float(m.group(3).replace(",", "")): the float, or <<>> when float raises
\* ValueError (no digit is left).
parse_amount(text) ==
  LET ds == SelectSeq(text, IsDigit)
  IN  IF ds = <<>> THEN <<>> ELSE <<to_number(ds)>>

\* The loop of sum(): the amounts added one by one to what is summed so far,
\* each addition rounded, as CPython adds floats up to version 3.11.  (From
\* 3.12 on sum() carries the rounding errors along; the two differ only when
\* a partial sum of 2^53 or more is rounded.)
RECURSIVE sum_loop(_, _)
sum_loop(acc, cats) == IF cats = <<>> THEN acc
                       ELSE sum_loop(float_add(acc, cats[1].amt), Tail(cats))

\* sum(a for _, a in cats), which starts from 0.
sum_amounts(cats) == sum_loop(Finite(Zero), cats)

\* The loop of budget_totals_from_lines: cats so far, over the lines left.
RECURSIVE totals_loop(_, _)
totals_loop(lines, cats) ==
  IF lines = <<>> THEN [kind |-> "ok", cats |-> cats]
  ELSE LET m == pair_search(Head(lines))
       IN  IF ~m.found THEN totals_loop(Tail(lines), cats)
           ELSE LET name == strip(SubSeq(Head(lines), m.name_from, m.name_to))
                    amt  == parse_amount(SubSeq(Head(lines), m.amt_from, m.amt_to))
                IN  IF amt = <<>> THEN [kind |-> "ValueError", cats |-> cats]
                    ELSE totals_loop(Tail(lines),
                                     Append(cats, [name |-> name, amt |-> amt[1]]))

\* budget_totals_from_lines(lines): (total, cats), None, or a ValueError raised
\* by float().
budget_totals_from_lines(lines) ==
  LET r == totals_loop(lines, <<>>)
  IN  IF r.kind = "ValueError"
      THEN [kind |-> "ValueError", total |-> Finite(Zero), cats |-> <<>>]
      ELSE IF r.cats # <<>>
           THEN [kind |-> "totals", total |-> sum_amounts(r.cats), cats |-> r.cats]
           ELSE [kind |-> "None", total |-> Finite(Zero), cats |-> <<>>]

\* The Budget tab: the candidate lines, what is parsed from them, the metric
\* f"{int(total):,}" when it is shown, and the error raised, if any: the
\* ValueError of float(), or the OverflowError of int() on an infinite total.
\* With no candidate line the tab shows the notice.  The chart of lines
\* 273-283 is drawn inside a try that catches every Exception and leaves no
\* trace in what follows.
budget_view(lines, res) ==
  IF lines = <<>>
  THEN [lines |-> <<>>,
        res |-> [kind |-> "info", total |-> Finite(Zero), cats |-> <<>>],
        metric |-> <<>>, raised |-> "none"]
  ELSE IF res.kind = "ValueError"
  THEN [lines |-> lines, res |-> res, metric |-> <<>>, raised |-> "ValueError"]
  ELSE IF res.kind = "totals" /\ res.total.inf
  THEN [lines |-> lines, res |-> res, metric |-> <<>>, raised |-> "OverflowError"]
  ELSE [lines |-> lines, res |-> res,
        metric |-> IF res.kind = "totals" THEN <<with_commas(res.total.n)>> ELSE <<>>,
        raised |-> "none"]

\* with tab_budget:
tab_budget(md) ==
  budget_view(extract_budget_lines(md), budget_totals_from_lines(extract_budget_lines(md)))

\* -------------------------------------------------------- the Weather tab

Weather == <<"w", "e", "a", "t", "h", "e", "r">>

\* re.search(r"^\s*Weather", ln, re.I)
weather_start(ln) == MatchesAt(ln, SkipIn(ln, 1, SpaceSet), Weather)

\* A faulty loop that breaks at the first blank line, in a block or not.
RECURSIVE weather_loop_any_blank(_, _, _)
weather_loop_any_blank(lines, in_weather, chunk) ==
  IF lines = <<>> THEN chunk
  ELSE LET ln  == Head(lines)
           inw == in_weather \/ weather_start(ln)
           ch  == IF inw THEN chunk \o ln \o <<"\n">> ELSE chunk
       IN  IF strip(ln) = <<>> THEN ch
           ELSE weather_loop_any_blank(Tail(lines), inw, ch)

\* The loop over answer_md.splitlines(): weather_chunk at its end.
RECURSIVE weather_loop(_, _, _)
weather_loop(lines, in_weather, chunk) ==
  IF lines = <<>> THEN chunk
  ELSE LET ln  == Head(lines)
           inw == in_weather \/ weather_start(ln)
           ch  == IF inw THEN chunk \o ln \o <<"\n">> ELSE chunk
       IN  IF inw /\ strip(ln) = <<>> THEN ch
           ELSE weather_loop(Tail(lines), inw, ch)

\* The Weather tab: the block, or the notice.
tab_weather(md) ==
  LET chunk == weather_loop(splitlines(md), FALSE, <<>>)
  IN  IF strip(chunk) # <<>>
      THEN [kind |-> "block", text |-> strip(chunk)]
      ELSE [kind |-> "info", text |-> <<>>]

\* ------------------------------------------------------------ the Map tab

\* The Map tab, given what the geocoding GET does: every failure is caught.
tab_map(destination, geo) ==
  IF destination = <<>> THEN "info"
  ELSE IF geo = "exception" THEN "warning: unavailable"
  ELSE IF geo = "found" THEN "map"
  ELSE "warning: no location"

\* ------------------------------------------------------- page: the inputs

\* Lines a generated answer is made of: an empty line, a line of one space, two
\* day headers (the second indented, lower-case, with a full-width colon), a
\* priced line, a line whose amount is a lone comma, a priced line with no
\* budget word or currency sign, an indented weather line, a zero amount,
\* two lines in one around a carriage return, with one more at the end, a
\* day header after a form feed, a priced line with no-break spaces.
PoolLines ==
  { <<>>,
    <<"N", "\r", "W", "e", "a", "t", "h", "e", "r", " ", "o", "k", "\r">>,
    <<"\f", "D", "a", "y", " ", "3", ":">>,
    <<"NBSP", "C", "o", "s", "t", ":", "NBSP", "9">>,
    <<" ">>,
    <<"D", "a", "y", " ", "1", ":", " ", "A">>,
    <<" ", "d", "a", "y", "2", "FWCOLON", "B">>,
    <<"F", "o", "o", "d", ":", " ", "$", "2", "0">>,
    <<"C", "o", "s", "t", ":", " ", ",">>,
    <<"H", "o", "t", "e", "l", ":", " ", "1", ",", "0", "0", "0">>,
    <<" ", "W", "e", "a", "t", "h", "e", "r", ":", " ", "h", "o", "t", " ">>,
    <<"C", "o", "s", "t", ":", " ", "0">> }

PoolTexts == {join(ls) : ls \in UNION {[1..n -> PoolLines] : n \in 0..MaxLines}}

\* "Accommodation: RUPEE5000\nFood: RUPEE2000"
BudgetExample ==
  join(<< <<"A", "c", "c", "o", "m", "m", "o", "d", "a", "t", "i", "o", "n", ":", " ",
            "RUPEE", "5", "0", "0", "0">>,
          <<"F", "o", "o", "d", ":", " ", "RUPEE", "2", "0", "0", "0">> >>)

\* "Day 1: Arrival\n...\nDay 2: City tour\n..."
DaysExample ==
  join(<< <<"D", "a", "y", " ", "1", ":", " ", "A", "r", "r", "i", "v", "a", "l">>,
          <<".", ".", ".">>,
          <<"D", "a", "y", " ", "2", ":", " ", "C", "i", "t", "y", " ", "t", "o", "u", "r">>,
          <<".", ".", ".">> >>)

\* "Weather: sunny, 28DEGC\n\nNext section"
WeatherExample ==
  join(<< <<"W", "e", "a", "t", "h", "e", "r", ":", " ", "s", "u", "n", "n", "y", ",",
            " ", "2", "8", "DEG", "C">>,
          <<>>,
          <<"N", "e", "x", "t", " ", "s", "e", "c", "t", "i", "o", "n">> >>)

\* Answers with BudgetCap - 1 and BudgetCap candidate lines "$" before the
\* priced line "Tax: $5".
LongTexts ==
  { join([k \in 1..(n + 1) |->
            IF k <= n THEN <<"$">> ELSE <<"T", "a", "x", ":", " ", "$", "5">>]) :
      n \in {BudgetCap - 1, BudgetCap} }

\* Answers with amounts a float does not hold: 2^53 + 1; 2^53 and 1 to add;
\* 10^309, beyond every float; 10^308 twice, whose sum is.
BigTexts ==
  LET cost == <<"C", "o", "s", "t", ":", " ">>
      food == <<"F", "o", "o", "d", ":", " ", "$", "1">>
      zeros(n) == [i \in 1..n |-> "0"]
  IN  { cost \o <<"9", "0", "0", "7", "1", "9", "9", "2", "5", "4", "7", "4", "0", "9", "9", "3">>,
        join(<<cost \o <<"9", "0", "0", "7", "1", "9", "9", "2", "5", "4", "7", "4", "0", "9",
                         "9", "2">>, food>>),
        cost \o <<"1">> \o zeros(309),
        join(<<cost \o <<"1">> \o zeros(308), cost \o <<"1">> \o zeros(308)>>) }

ScanTexts ==
  PoolTexts \cup {BudgetExample, DaysExample, WeatherExample} \cup LongTexts \cup BigTexts

NoResponse == [kind |-> "exception", status |-> 0, json |-> "invalid", answer |-> <<>>,
               text |-> <<"Connection refused">>, json_error |-> <<>>]

\* \uXXXX, as a JSON string spells a character by its code.
Code(hex) == <<"\\", "u">> \o hex

\* A character as json.dumps spells it inside a string: the short escapes,
\* \uXXXX for every other character outside the printable ASCII, and the
\* printable ones as they are.
JsonEscapeChar(c) ==
  CASE c = "\"" -> <<"\\", "\"">>
    [] c = "\\" -> <<"\\", "\\">>
    [] c = "\n" -> <<"\\", "n">>
    [] c = "\r" -> <<"\\", "r">>
    [] c = "\t" -> <<"\\", "t">>
    [] c = "\f" -> <<"\\", "f">>
    [] c = "BS" -> <<"\\", "b">>
    [] c \in Coded \ {"\n", "\r", "\t", "\f", "BS"} ->
         Code(Codes[CHOOSE i \in 1..Len(Codes) : Codes[i][1] = c][2])
    [] c \in Printable \ {"\"", "\\"} -> <<c>>

\* A text as the characters between the quotes of a JSON string: the
\* spellings of its characters, one after the other.
RECURSIVE JsonEscape(_)
JsonEscape(s) ==
  IF s = <<>> THEN <<>>
  ELSE IF Len(s) = 1 THEN JsonEscapeChar(s[1])
  ELSE JsonEscape(SubSeq(s, 1, Len(s) \div 2))
       \o JsonEscape(SubSeq(s, Len(s) \div 2 + 1, Len(s)))

\* A response of the given status whose body is a JSON object, with the
\* answer when a is <<answer>> and without the field when a is <<>>; the body
\* is the object as json.dumps writes it.
JsonObject(status, a) ==
  [kind |-> "http", status |-> status, json |-> "object", answer |-> a,
   text |-> <<"{">>
            \o (IF a = <<>> THEN <<>>
                ELSE <<"\"", "a", "n", "s", "w", "e", "r", "\"", ":", " ", "\"">>
                     \o JsonEscape(a[1]) \o <<"\"">>)
            \o <<"}">>,
   json_error |-> <<>>]

\* A response whose body is a JSON array: .get raises AttributeError.
JsonArray(status) ==
  [kind |-> "http", status |-> status, json |-> "array", answer |-> <<>>,
   text |-> <<"[", "]">>, json_error |-> <<"'list' object has no attribute 'get'">>]

Oops == <<"o", "o", "p", "s">>

\* A response whose body is the text "oops", which is not JSON: resp.json()
\* raises at its first character.
PlainBody(status) ==
  [kind |-> "http", status |-> status, json |-> "invalid", answer |-> <<>>,
   text |-> Oops, json_error |-> <<"Expecting value: line 1 column 1 (char 0)">>]

\* A response with an empty body: resp.json() raises the same error.
EmptyBody(status) ==
  [kind |-> "http", status |-> status, json |-> "invalid", answer |-> <<>>,
   text |-> <<>>, json_error |-> <<"Expecting value: line 1 column 1 (char 0)">>]

FailingBackends ==
  { NoResponse, JsonObject(200, <<>>), JsonArray(200), PlainBody(200),
    JsonObject(201, << <<"D", "a", "y", " ", "1", ":", " ", "A">> >>),
    JsonObject(201, << <<"a", "\n", "\"", "\\", "RUPEE", "ESC", "BS">> >>),
    PlainBody(404), EmptyBody(500), EmptyBody(200) }

PageBackends ==
  FailingBackends \cup
  { JsonObject(200, <<t>>) : t \in {<<>>, BudgetExample, <<"C", "o", "s", "t", ":", " ", ",">>} }

ScanBackends == {JsonObject(200, <<t>>) : t \in ScanTexts} \cup {PlainBody(500)}

Rome == <<"R", "o", "m", "e">>

Goa == <<"G", "o", "a">>

\* One button at most is pressed in a run.
Buttons == { <<FALSE, FALSE>>, <<TRUE, FALSE>>, <<FALSE, TRUE>> }

Widgets(texts, destinations, dayCounts, includes, avoids, languages) ==
  { [user_input |-> t, destination |-> d, start_date |-> "2025-01-15", days |-> n,
     travelers |-> 2, budget_level |-> "Moderate", vibe |-> "Relaxed",
     hotel_stars |-> 3, must_include |-> mi, avoid |-> av, language |-> lang,
     submit_button |-> b[1], regen_button |-> b[2]] :
      t \in texts, d \in destinations, n \in dayCounts, mi \in includes,
      av \in avoids, lang \in languages, b \in Buttons }

PageWidgets ==
  Widgets({<<>>, <<" ">>, Rome, <<" ">> \o Rome \o <<" ">>}, {<<>>, Goa}, {5, 30},
          {<<>>, <<"s", "e", "a">>}, {<<>>, <<"b", "u", "s">>}, {"English", "Hindi"})

ScanWidgets == Widgets({Rome}, {<<>>}, {5}, {<<>>}, {<<>>}, {"English"})

Geocoders == {"found", "none", "exception"}

BlankPage == [overview |-> <<>>, days |-> <<>>, map |-> <<>>, budget |-> <<>>,
              weather |-> <<>>, error |-> <<>>, tip |-> <<>>]

\* A script run about to start, with the widgets as the user left them.
RunStarts ==
  /\ pc = "compose"
  /\ final_prompt = <<>>
  /\ posts = <<>>
  /\ ok = FALSE
  /\ answer_md = <<>>
  /\ page = BlankPage

\* No script run: the page's variables while the loader is looked at.
PageIdle ==
  /\ widgets \in Widgets({<<>>}, {<<>>}, {5}, {<<>>}, {<<>>}, {"English"})
  /\ widgets.submit_button = FALSE
  /\ widgets.regen_button = FALSE
  /\ backend = NoResponse
  /\ geocoder = "none"
  /\ pc = "idle"
  /\ final_prompt = <<>>
  /\ posts = <<>>
  /\ ok = FALSE
  /\ answer_md = <<>>
  /\ page = BlankPage

\* ------------------------------------------------------ page: the actions

\* Lines 182-186: the final prompt.
ComposePrompt ==
  /\ pc = "compose"
  /\ final_prompt' = compose_final_prompt(widgets)
  /\ pc' = "guard"
  /\ UNCHANGED <<widgets, backend, geocoder, posts, ok, answer_md, page>>

\* Lines 188-190: the one POST of the run, and its outcome.
CallBackend ==
  /\ pc = "guard"
  /\ should_call(widgets, final_prompt)
  /\ posts' = Append(posts, final_prompt)
  /\ ok' = call_backend(final_prompt, backend)[1]
  /\ answer_md' = call_backend(final_prompt, backend)[2]
  /\ pc' = IF ok' THEN "overview" ELSE "error"
  /\ UNCHANGED <<widgets, backend, geocoder, final_prompt, page>>

\* Lines 308-309: the tip, when nothing is sent.
ShowTip ==
  /\ pc = "guard"
  /\ ~should_call(widgets, final_prompt)
  /\ page' = [page EXCEPT !.tip = <<"Tip">>]
  /\ pc' = "done"
  /\ UNCHANGED <<widgets, backend, geocoder, final_prompt, posts, ok, answer_md>>

\* Lines 305-306: the inline error.
RenderError ==
  /\ pc = "error"
  /\ page' = [page EXCEPT !.error = <<<<" Bot failed to respond: ">> \o answer_md>>]
  /\ pc' = "done"
  /\ UNCHANGED <<widgets, backend, geocoder, final_prompt, posts, ok, answer_md>>

\* Lines 193-227: the heading and the Overview tab.
RenderOverview ==
  /\ pc = "overview"
  /\ page' = [page EXCEPT !.overview = <<answer_md>>]
  /\ pc' = "days"
  /\ UNCHANGED <<widgets, backend, geocoder, final_prompt, posts, ok, answer_md>>

\* Lines 230-239: the Day Plan tab.
RenderDays ==
  /\ pc = "days"
  /\ page' = [page EXCEPT !.days = <<tab_days(answer_md)>>]
  /\ pc' = "map"
  /\ UNCHANGED <<widgets, backend, geocoder, final_prompt, posts, ok, answer_md>>

\* Lines 242-261: the Map tab.
RenderMap ==
  /\ pc = "map"
  /\ page' = [page EXCEPT !.map = <<tab_map(widgets.destination, geocoder)>>]
  /\ pc' = "budget"
  /\ UNCHANGED <<widgets, backend, geocoder, final_prompt, posts, ok, answer_md>>

\* Lines 264-285: the Budget tab.  A ValueError of float() or an
\* OverflowError of int() is caught nowhere: it ends the script run, after
\* the candidate lines were written.
RenderBudget ==
  /\ pc = "budget"
  /\ page' = [page EXCEPT !.budget = <<tab_budget(answer_md)>>]
  /\ pc' = IF page'.budget[1].raised # "none" THEN "raised" ELSE "weather"
  /\ UNCHANGED <<widgets, backend, geocoder, final_prompt, posts, ok, answer_md>>

\* Lines 288-303: the Weather tab.
RenderWeather ==
  /\ pc = "weather"
  /\ page' = [page EXCEPT !.weather = <<tab_weather(answer_md)>>]
  /\ pc' = "done"
  /\ UNCHANGED <<widgets, backend, geocoder, final_prompt, posts, ok, answer_md>>

\* ------------------------------------------------------ the specifications

\* A script run of the page, over the widget values and the backend's answers.
Init ==
  /\ LoaderIdle
  /\ widgets \in PageWidgets
  /\ backend \in PageBackends
  /\ geocoder \in Geocoders
  /\ RunStarts

\* A script run of the page, over the answer texts.
InitScan ==
  /\ LoaderIdle
  /\ widgets \in ScanWidgets
  /\ backend \in ScanBackends
  /\ geocoder = "found"
  /\ RunStarts

\* The loader, over the environment and the config.
InitLoader ==
  /\ InitLoaderVars
  /\ PageIdle

Next ==
  \/ ComposePrompt /\ UNCHANGED loaderVars
  \/ CallBackend /\ UNCHANGED loaderVars
  \/ ShowTip /\ UNCHANGED loaderVars
  \/ RenderError /\ UNCHANGED loaderVars
  \/ RenderOverview /\ UNCHANGED loaderVars
  \/ RenderDays /\ UNCHANGED loaderVars
  \/ RenderMap /\ UNCHANGED loaderVars
  \/ RenderBudget /\ UNCHANGED loaderVars
  \/ RenderWeather /\ UNCHANGED loaderVars

NextLoader ==
  \/ (\E p \in Providers : AssignProvider(p)) /\ UNCHANGED pageVars
  \/ ResolveGroqModel /\ UNCHANGED pageVars
  \/ LoadLlm /\ UNCHANGED pageVars

Spec == Init /\ [][Next]_vars

SpecScan == InitScan /\ [][Next]_vars

SpecLoader == InitLoader /\ [][NextLoader]_vars

\* =================================================================== claims

\* s without its leading and trailing whitespace, by positions.
Trimmed(s) ==
  LET inked == {i \in 1..Len(s) : ~IsSpace(s[i])}
  IN  IF inked = {} THEN <<>>
      ELSE SubSeq(s, CHOOSE i \in inked : \A k \in inked : i <= k,
                     CHOOSE i \in inked : \A k \in inked : i >= k)

\* An optional string that is absent or empty.
Empty(o) == o = <<>> \/ o = << <<>> >>

\* C1: the resolver returns the first non-empty of (GROQ_MODEL, the config's
\* model name, the default), trimmed, and the default instead when that is
\* retired; with override and config both empty it returns the default.
C1_Resolve ==
  resolved # <<>> =>
    LET o     == environ.GROQ_MODEL
        c     == config.groq
        first == IF ~Empty(o) THEN o[1] ELSE IF ~Empty(c) THEN c[1] ELSE GROQ_DEFAULT
    IN  /\ resolved[1] = IF Trimmed(first) \in DECOMMISSIONED THEN GROQ_DEFAULT
                         ELSE Trimmed(first)
        /\ ~Empty(o) /\ Trimmed(o[1]) \notin DECOMMISSIONED => resolved[1] = Trimmed(o[1])
        /\ Empty(o) /\ Empty(c) => resolved[1] = GROQ_DEFAULT

\* A retired model within whitespace was given as the override, and replaced.
C1_Witness ==
  /\ resolved = <<GROQ_DEFAULT>>
  /\ environ.GROQ_MODEL = << <<" ">> \o DeepSeek \o <<" ">> >>

KeyOf(provider) == IF provider = "groq" THEN environ.GROQ_API_KEY
                   ELSE environ.OPENAI_API_KEY

\* C2 as stated: for groq and for openai, load_llm fails with the
\* configuration error exactly when the provider's key is unset, and gives a
\* client with temperature 0.2 and timeout 60 otherwise.
C2_FailsIffUnset ==
  llm.out.kind # "none" /\ llm.provider \in {"groq", "openai"} =>
    /\ llm.out.kind = "RuntimeError" <=> KeyOf(llm.provider) = <<>>
    /\ llm.out.kind \in {"RuntimeError", "handle"}

\* C2 amended: load_llm fails with the configuration error exactly when the
\* provider's key is unset or empty, and otherwise gives a client built with
\* that key, temperature 0.2 and timeout 60.
C2_FailsIffUnsetOrEmpty ==
  llm.out.kind # "none" /\ llm.provider \in {"groq", "openai"} =>
    LET key == KeyOf(llm.provider)
    IN  /\ llm.out.kind = "RuntimeError" <=> Empty(key)
        /\ ~Empty(key) =>
             /\ llm.out.kind = "handle"
             /\ llm.out.provider = llm.provider
             /\ llm.out.api_key = key[1]
             /\ llm.out.temperature = "0.2"
             /\ llm.out.timeout = 60

\* load_llm failed for groq with GROQ_API_KEY set to the empty string.
C2_Witness ==
  /\ llm.provider = "groq"
  /\ llm.out.kind = "RuntimeError"
  /\ environ.GROQ_API_KEY = << <<>> >>

TabsBlank ==
  /\ page.overview = <<>>
  /\ page.days = <<>>
  /\ page.map = <<>>
  /\ page.budget = <<>>
  /\ page.weather = <<>>

\* C8 as stated: call_backend reports success with the answer exactly when the
\* response's status is 200, and failure with the body (or the exception's
\* text) otherwise; the tabs are rendered only on success, the error only on
\* failure.
C8_SuccessIff200 ==
  posts # <<>> =>
    /\ ok <=> (backend.kind = "http" /\ backend.status = 200)
    /\ backend.kind = "http" /\ backend.status # 200 => answer_md = backend.text
    /\ backend.kind = "exception" => answer_md = backend.text
    /\ ~ok => TabsBlank
    /\ ok => page.error = <<>>

\* C8 amended: call_backend reports success exactly when the response's status
\* is 200 and its body decodes to a JSON object, the answer being the object's
\* "answer" field, or the empty text when the field is missing; a 200 response
\* whose body is no JSON object gives failure with the decoding error's text,
\* any other status failure with the body verbatim, a transport exception
\* failure with the exception's text; the tabs are rendered only on success,
\* and on failure only the error message is.
C8_SuccessIff200Json ==
  /\ posts = <<>> => TabsBlank /\ page.error = <<>>
  /\ posts # <<>> =>
       /\ ok <=> (backend.kind = "http" /\ backend.status = 200 /\ backend.json = "object")
       /\ ok => answer_md = IF backend.answer = <<>> THEN <<>> ELSE backend.answer[1]
       /\ backend.kind = "http" /\ backend.status = 200 /\ backend.json # "object"
            => answer_md = backend.json_error
       /\ backend.kind = "http" /\ backend.status # 200 => answer_md = backend.text
       /\ backend.kind = "exception" => answer_md = backend.text
       /\ ~ok => TabsBlank /\ page.tip = <<>>
       /\ ~ok /\ pc = "done" =>
            page.error = << <<" Bot failed to respond: ">> \o answer_md >>
       /\ ok => page.error = <<>> /\ page.tip = <<>>
       /\ ok /\ pc = "done" => page.overview = <<answer_md>> /\ page.weather # <<>>

\* A 201 response carrying an answer was reported as a failure with its body,
\* and only the error was rendered.
C8_Witness ==
  /\ pc = "done"
  /\ backend.kind = "http" /\ backend.status = 201 /\ backend.answer # <<>>
  /\ ~ok
  /\ answer_md = backend.text
  /\ page.error # <<>>
  /\ TabsBlank

\* C9: with a free text that is not blank, the prompt, composed and sent, is
\* the trimmed free text whatever the sidebar holds; the prompt of
\* build_prompt is used only with a blank free text (and a destination).
C9_FreeTextWins ==
  pc # "compose" =>
    LET typed == Trimmed(widgets.user_input)
    IN  /\ typed # <<>> => final_prompt = typed
        /\ typed = <<>> =>
             final_prompt = IF widgets.destination # <<>> THEN build_prompt(widgets)
                            ELSE <<>>
        /\ \A k \in 1..Len(posts) : posts[k] = final_prompt

\* The free text " Rome " was sent as "Rome" although every sidebar field that
\* build_prompt reads was set.
C9_Witness ==
  /\ posts = <<Rome>>
  /\ widgets.user_input = <<" ">> \o Rome \o <<" ">>
  /\ widgets.destination = Goa
  /\ widgets.must_include # <<>>
  /\ widgets.avoid # <<>>
  /\ widgets.days = 30
  /\ widgets.language = "Hindi"

Pressed == widgets.submit_button \/ widgets.regen_button

\* C10: in a script run at most one POST is sent, and only with a button
\* pressed and a prompt to send, in which case exactly one is, failed or not;
\* with a blank free text and no destination none is sent and only the tip is
\* shown.
C10_OnePost ==
  /\ Len(posts) <= 1
  /\ posts # <<>> => Pressed /\ final_prompt # <<>> /\ posts = <<final_prompt>>
  /\ pc \notin {"compose", "guard"} /\ Pressed /\ final_prompt # <<>> => Len(posts) = 1
  /\ ~Pressed => posts = <<>>
  /\ Trimmed(widgets.user_input) = <<>> /\ widgets.destination = <<>> =>
       /\ posts = <<>>
       /\ pc = "done" => page = [BlankPage EXCEPT !.tip = <<"Tip">>]

\* A request failed and the run ended with that one POST.
C10_Witness ==
  /\ pc = "done"
  /\ ~ok
  /\ Len(posts) = 1
  /\ page.error # <<>>

\* ---------------------------------------------- the scans, as the spec words them

\* Where the line breaks of s end, with the two ends of s: a carriage return
\* right before a line feed is one break with it.
Breaks(s) ==
  {0} \cup {i \in 1..Len(s) : /\ s[i] \in LineBreaks
                               /\ ~(s[i] = "\r" /\ i < Len(s) /\ s[i + 1] = "\n")}
      \cup {Len(s) + 1}

Kth(S, k) == CHOOSE x \in S : Cardinality({y \in S : y < x}) = k - 1

\* The lines of a text: what lies between its line breaks.
LinesOf(s) ==
  [k \in 1..(Cardinality(Breaks(s)) - 1) |->
     LET b == Kth(Breaks(s), k + 1)
         crlf == b > 1 /\ b <= Len(s) /\ s[b] = "\n" /\ s[b - 1] = "\r"
     IN  SubSeq(s, Kth(Breaks(s), k) + 1, IF crlf THEN b - 2 ELSE b - 1)]

Lowered(s) == [i \in 1..Len(s) |-> ToLower(s[i])]

StartsWith(s, t) == Len(s) >= Len(t) /\ SubSeq(s, 1, Len(t)) = t

Contains(s, t) == \E i \in 0..(Len(s) - Len(t)) : SubSeq(s, i + 1, i + Len(t)) = t

\* s without its longest prefix of characters of S.
Drop(s, S) ==
  LET keep == {i \in 1..Len(s) : s[i] \notin S}
  IN  IF keep = {} THEN <<>>
      ELSE SubSeq(s, CHOOSE i \in keep : \A k \in keep : i <= k, Len(s))

\* The longest prefix of s of characters of S.
Take(s, S) == SubSeq(s, 1, Len(s) - Len(Drop(s, S)))

\* The header "Day <integer>:" a line starts with, after optional whitespace:
\* <<header>>, or <<>> when the line is no header line.
HeaderOf(ln) ==
  LET r1 == Drop(ln, SpaceSet)
      r2 == Drop(SubSeq(r1, 4, Len(r1)), SpaceSet)
      r3 == Drop(r2, DigitSet)
  IN  IF /\ StartsWith(Lowered(r1), Day)
         /\ Len(r3) < Len(r2)
         /\ r3 # <<>>
         /\ Head(r3) \in Colons
      THEN << SubSeq(r1, 1, Len(r1) - Len(r3) + 1) >>
      ELSE <<>>

IsHeaderLine(ln) == HeaderOf(ln) # <<>>

\* C3: the Day Plan tab shows one section per header line of the answer, in
\* order, each headed by its own header.
C3_SectionPerHeader ==
  page.days # <<>> =>
    LET hs == SelectSeq(LinesOf(answer_md), IsHeaderLine)
        d  == page.days[1]
    IN  /\ Len(d.sections) = Len(hs)
        /\ \A k \in 1..Len(hs) : d.sections[k].hdr = HeaderOf(hs[k])[1]

\* C4: no scan of an answer text raises: the script run is never ended by one.
C4_NoScanRaises == pc # "raised"

\* What follows the colon at p in ln, as an amount: after optional whitespace,
\* an optional currency sign and optional whitespace, the digits and commas.
AmountAfter(ln, p) ==
  LET r1 == Drop(SubSeq(ln, p + 1, Len(ln)), SpaceSet)
      r2 == IF r1 # <<>> /\ Head(r1) \in CurrencySet THEN Drop(Tail(r1), SpaceSet) ELSE r1
  IN  Take(r2, AmountSet)

\* The colons of ln that end a name and start an amount.
PairColons(ln) ==
  {p \in 2..Len(ln) : ln[p] = ":" /\ ln[p - 1] \in NameSet /\ AmountAfter(ln, p) # <<>>}

\* The line matches "word(s) : optional currency sign, digits and commas".
HasPair(ln) == PairColons(ln) # {}

FirstPairColon(ln) == CHOOSE p \in PairColons(ln) : \A q \in PairColons(ln) : p <= q

\* The letters and spaces right before the colon at p, trimmed.
NameBefore(ln, p) ==
  LET from == CHOOSE i \in 1..(p - 1) :
                /\ \A k \in i..(p - 1) : ln[k] \in NameSet
                /\ i = 1 \/ ln[i - 1] \notin NameSet
  IN  Trimmed(SubSeq(ln, from, p - 1))

\* The whole number the digits write.
Decimal(ds) == Canon([i \in 1..Len(ds) |-> DigitValue(ds[i])])

DigitsAfter(ln, p) == SelectSeq(AmountAfter(ln, p), IsDigit)

\* The line matches the pattern and its amount is a number.
HasNumericPair(ln) == HasPair(ln) /\ DigitsAfter(ln, FirstPairColon(ln)) # <<>>

PairOf(ln) == [name |-> NameBefore(ln, FirstPairColon(ln)),
               amt  |-> Finite(Decimal(DigitsAfter(ln, FirstPairColon(ln))))]

\* The (category, amount) pairs of the lines, one per line with a pair.
PairsIn(lines) ==
  LET sel == SelectSeq(lines, HasNumericPair)
  IN  [k \in 1..Len(sel) |-> PairOf(sel[k])]

\* The sum of the amounts, as numbers.
RECURSIVE Total(_)
Total(pairs) == IF pairs = <<>> THEN Finite(Zero)
                ELSE Finite(Add(Head(pairs).amt.n, Total(Tail(pairs)).n))

\* The number is one a float holds exactly whatever its digits: it is below
\* 2^53.
Exact(x) == ~x.inf /\ Less(x.n, TwoToMantissa)

\* The pairs with each amount as a float holds it.
AsFloats(pairs) ==
  [k \in 1..Len(pairs) |-> [name |-> pairs[k].name, amt |-> nearest_double(pairs[k].amt.n)]]

\* The sum of the first k amounts as floats add up, one after the other.
RECURSIVE FloatTotal(_, _)
FloatTotal(pairs, k) == IF k = 0 THEN Finite(Zero)
                        ELSE float_add(FloatTotal(pairs, k - 1), pairs[k].amt)

\* C5: given candidate lines, the aggregation reports no data exactly when
\* they hold no (category, amount) pair, and otherwise every pair, in order,
\* with the sum of the amounts.
C5_PairsAndTotal ==
  page.budget # <<>> /\ page.budget[1].lines # <<>> =>
    LET pairs == PairsIn(page.budget[1].lines)
        res   == page.budget[1].res
    IN  /\ res.kind = "None" <=> pairs = <<>>
        /\ pairs # <<>> =>
             /\ res.kind = "totals"
             /\ res.cats = pairs
             /\ res.total = Total(pairs)

\* The line holds one of: budget, cost, a rupee or dollar sign, INR, USD.
IsCandidate(ln) ==
  \E tok \in { <<"b", "u", "d", "g", "e", "t">>, <<"c", "o", "s", "t">>, <<"RUPEE">>,
               <<"$">>, <<"i", "n", "r">>, <<"u", "s", "d">> } : Contains(Lowered(ln), tok)

\* The first 20 candidate lines of a text.
Candidates(md) ==
  LET all == SelectSeq(LinesOf(md), IsCandidate)
  IN  SubSeq(all, 1, IF Len(all) < 20 THEN Len(all) ELSE 20)

\* C6 as stated: once the Budget tab is rendered, every line of the answer
\* that matches the pattern has its pair among the reported categories,
\* candidate line or not.
C6_EveryMatchingLine ==
  pc \in {"weather", "done"} /\ page.budget # <<>> =>
    LET all == PairsIn(LinesOf(answer_md))
        res == page.budget[1].res
    IN  all # <<>> => res.kind = "totals" /\ res.cats = all /\ res.total = Total(all)

\* C6 amended: the parsing reads the candidate lines only (the first 20 lines
\* holding budget, cost, a rupee or dollar sign, INR or USD): the categories
\* the Budget tab reports are those of the candidate lines that match the
\* pattern, one pair per line, in order, each amount the float nearest the
\* number written (the number itself below 2^53), and the total is their
\* float sum in that order (the sum itself when every partial sum is below
\* 2^53); when it reports none no candidate line matches; a matching line
\* that is no candidate adds nothing.  The tab raises a ValueError exactly
\* when a candidate line matches with an amount of commas only, and otherwise
\* an OverflowError exactly when the total is infinite; when it raises
\* nothing and there are categories it shows the total in groups of three
\* digits.
C6_CandidateLinesOnly ==
  page.budget # <<>> =>
    LET b     == page.budget[1]
        cand  == Candidates(answer_md)
        res   == b.res
        pairs == PairsIn(cand)
        read  == AsFloats(pairs)
    IN  /\ b.lines = cand
        /\ res.kind = "totals" =>
             /\ \A k \in 1..Len(cand) : HasPair(cand[k]) => HasNumericPair(cand[k])
             /\ res.cats = read
             /\ res.cats # <<>>
             /\ \A k \in 1..Len(pairs) : Exact(pairs[k].amt) => res.cats[k].amt = pairs[k].amt
             /\ res.total = FloatTotal(read, Len(read))
             /\ Exact(Total(pairs)) => res.total = Total(pairs)
             /\ b.raised = IF res.total.inf THEN "OverflowError" ELSE "none"
             /\ ~res.total.inf =>
                  /\ Len(b.metric) = 1
                  /\ SelectSeq(b.metric[1], IsDigit) =
                       [i \in 1..Len(res.total.n) |-> DigitSeq[res.total.n[i] + 1]]
        /\ res.kind \in {"None", "info"} =>
             /\ \A k \in 1..Len(cand) : ~HasPair(cand[k])
             /\ b.raised = "none"
        /\ res.kind = "ValueError" =>
             /\ \E k \in 1..Len(cand) : HasPair(cand[k]) /\ ~HasNumericPair(cand[k])
             /\ b.raised = "ValueError"
        /\ b.raised = "ValueError" => res.kind = "ValueError"
        /\ pc \in {"weather", "done"} => b.raised = "none"

\* The Budget tab reported categories while a matching line of the answer, no
\* candidate, was left out.
C6_Witness ==
  /\ page.budget # <<>>
  /\ page.budget[1].res.kind = "totals"
  /\ Len(PairsIn(LinesOf(answer_md))) > Len(page.budget[1].res.cats)

\* The line is empty or whitespace.
IsBlank(ln) == \A i \in 1..Len(ln) : IsSpace(ln[i])

\* The line starts with "Weather", whatever the case.
StartsWeather(ln) == StartsWith(Lowered(ln), Weather)

\* The line starts with "Weather" after optional whitespace.
StartsWeatherIndented(ln) == StartsWith(Lowered(Drop(ln, SpaceSet)), Weather)

\* The lines from the first that Starts up to the next blank line, joined.
Block(lines, Starts(_)) ==
  LET from  == CHOOSE i \in 1..Len(lines) :
                 Starts(lines[i]) /\ \A k \in 1..(i - 1) : ~Starts(lines[k])
      blank == {j \in (from + 1)..Len(lines) : IsBlank(lines[j])}
      to    == IF blank = {} THEN Len(lines)
               ELSE (CHOOSE j \in blank : \A k \in blank : j <= k) - 1
  IN  join(SubSeq(lines, from, to))

\* C7 as stated: the Weather tab shows the lines from the first line that
\* starts with "Weather" up to the next blank line, and the notice exactly
\* when no line starts with "Weather".
C7_FromWeatherLine ==
  page.weather # <<>> =>
    LET lines == LinesOf(answer_md)
        some  == \E i \in 1..Len(lines) : StartsWeather(lines[i])
    IN  /\ page.weather[1].kind = "info" <=> ~some
        /\ some => page.weather[1].text = Block(lines, StartsWeather)

\* C7 amended: the Weather tab shows the lines from the first line that starts
\* with "Weather" after optional leading whitespace up to the next blank
\* (empty or whitespace) line, joined by newlines into one text trimmed of its
\* leading and trailing whitespace, and the notice exactly when there is no
\* such line.
C7_FromIndentedWeatherLine ==
  page.weather # <<>> =>
    LET lines == LinesOf(answer_md)
        some  == \E i \in 1..Len(lines) : StartsWeatherIndented(lines[i])
    IN  /\ page.weather[1].kind = "info" <=> ~some
        /\ some => /\ page.weather[1].kind = "block"
                   /\ page.weather[1].text = Trimmed(Block(lines, StartsWeatherIndented))

\* A block was shown that starts at an indented line, below the first line of
\* the answer, and ends at a blank line before the end of the answer.
C7_Witness ==
  /\ page.weather # <<>>
  /\ page.weather[1].kind = "block"
  /\ LET lines == LinesOf(answer_md)
     IN  /\ Len(lines) = 3
         /\ ~StartsWeatherIndented(lines[1])
         /\ StartsWeatherIndented(lines[2]) /\ ~StartsWeather(lines[2])
         /\ lines[3] = <<" ">>

====
